---- MODULE Spec2Model ----
(***************************************************************************)
(* CatsTrie (src/CatsTrie.py): a trie over the lowercase alphabet whose    *)
(* nodes cache the child that leads to the best completion.                *)
(*                                                                         *)
(* Node objects live in a heap `nodes`: a sequence of records, a node's    *)
(* reference is its position in the sequence, and the null reference is    *)
(* None.  Characters are their code points (ord), strings are sequences    *)
(* of code points, and an optional string is a sequence of at most one     *)
(* string: NoneStr is Python's None, Str(s) is the string s.               *)
(***************************************************************************)
EXTENDS Integers, Sequences, FiniteSets

VARIABLES
    nodes,            \* the heap of Node objects; nodes[root] is self.root
    nodes_to_update,  \* self.nodes_to_update
    sentences,        \* the sentences given to insert_iterative so far, in order
    call              \* the last call: its operation, argument and outcome

vars == <<nodes, nodes_to_update, sentences, call>>

----------------------------------------------------------------------------
(* Bounds of the model *)

\* longest sentence and prompt
MaxLen == 2
\* number of insert_iterative calls in a run
MaxIns == 3
\* number of insert_iterative calls in a run that admits any character
MaxInsX == 2

----------------------------------------------------------------------------
(* Characters *)

\* the size of a node's array of links
NumLinks == 27
\* ord('a'), the offset of the index computation
OrdA == 97
\* ord('R'), the root's character
RootChar == 82
\* ord('$'), the terminal's character
TerminalChar == 36

\* the lowercase letters the runs draw from: 'a', 'b'
Letters == {97, 98}
\* characters outside a-z: ' ', 'F', '`', '{'
OtherChars == {32, 70, 96, 123}
\* the characters outside a-z that sentences draw from: 'F', '`', '{'
OtherSentenceChars == {70, 96, 123}

None == 0
NoneStr == <<>>
Str(s) == <<s>>

\* the exceptions a call can end with
NoError == "none"
IndexError == "IndexError"
AttributeError == "AttributeError"

RECURSIVE StringsOfLen(_, _)
StringsOfLen(chars, n) ==
    IF n = 0 THEN {<<>>}
    ELSE {Append(s, c) : s \in StringsOfLen(chars, n - 1), c \in chars}

Strings(chars, lo, hi) == UNION {StringsOfLen(chars, n) : n \in lo..hi}

\* non-empty sentences over a-z
Sentences == Strings(Letters, 1, MaxLen)
\* prompts over a-z, the empty prompt included
Prompts == Strings(Letters, 0, MaxLen)
\* non-empty sentences over any character
AnySentences == Strings(Letters \cup OtherSentenceChars, 1, MaxLen)
\* prompts over any character
AnyPrompts == Strings(Letters \cup OtherChars, 0, MaxLen)

----------------------------------------------------------------------------
(* Node *)

Node(c) ==
    [links |-> [i \in 0..(NumLinks - 1) |-> None],
     char |-> c,
     word |-> NoneStr,
     word_freq |-> 0,
     best_child |-> None]

root == 1

\* index = ord(char) - 97 + 1
Index(c) == c - OrdA + 1

\* a list of NumLinks items accepts the subscripts -NumLinks .. NumLinks-1
InRange(index) == index >= -NumLinks /\ index <= NumLinks - 1

\* a negative subscript counts from the end of the list
Slot(index) == IF index < 0 THEN index + NumLinks ELSE index

----------------------------------------------------------------------------
(* update_nodes *)

\* variant: every node of the path gets the next node of the path
RECURSIVE init_pass_Always(_, _, _)
init_pass_Always(h, P, i) ==
    IF i > Len(P) - 1 THEN h
    ELSE init_pass_Always([h EXCEPT ![P[i]].best_child = P[i + 1],
                                    ![P[i]].word_freq = h[P[Len(P)]].word_freq],
                          P, i + 1)

\* first loop: a node without best_child gets the next node of the path
RECURSIVE init_pass(_, _, _)
init_pass(h, P, i) ==
    IF i > Len(P) - 1 THEN h
    ELSE LET node == P[i]
             h1 == IF h[node].best_child = None
                   THEN [h EXCEPT ![node].best_child = P[i + 1],
                                  ![node].word_freq = h[P[Len(P)]].word_freq]
                   ELSE h
         IN  init_pass(h1, P, i + 1)

\* variant: the comparison of the characters is reversed
TieBreak_Reversed(new_char, best_char) == new_char > best_char

\* variant: no tie-break, the first best child stays
TieBreak_Never(new_char, best_char) == FALSE

\* the new child replaces the best child of equal frequency
TieBreak(new_char, best_char) == new_char < best_char

\* variant: a new child of equal frequency always replaces the best child
compare_step_GreaterEqual(h, node, new_child, inserted_word_freq) ==
    IF inserted_word_freq >= h[h[node].best_child].word_freq
    THEN [h EXCEPT ![node].best_child = new_child,
                   ![node].word_freq = inserted_word_freq]
    ELSE h

\* variant: the greater frequency is written to the old best child
compare_step_WritesChild(h, node, new_child, inserted_word_freq) ==
    IF inserted_word_freq > h[h[node].best_child].word_freq
    THEN [h EXCEPT ![h[node].best_child].word_freq = inserted_word_freq,
                   ![node].best_child = new_child]
    ELSE IF /\ inserted_word_freq = h[h[node].best_child].word_freq
            /\ TieBreak(h[new_child].char, h[h[node].best_child].char)
    THEN [h EXCEPT ![node].best_child = new_child]
    ELSE h

\* second loop, one iteration: compare the inserted word's frequency with
\* the frequency of the node's best child
compare_step(h, node, new_child, inserted_word_freq) ==
    IF inserted_word_freq > h[h[node].best_child].word_freq
    THEN [h EXCEPT ![node].best_child = new_child,
                   ![node].word_freq = inserted_word_freq]
    ELSE IF /\ inserted_word_freq = h[h[node].best_child].word_freq
            /\ TieBreak(h[new_child].char, h[h[node].best_child].char)
    THEN [h EXCEPT ![node].best_child = new_child]
    ELSE h

\* variant: the second loop leaves out the pair that ends in the terminal
CompareLast_ExcludeTerminal(P) == Len(P) - 2

\* the subscripts of the second loop: range(len(nodes_to_update) - 1)
CompareLast(P) == Len(P) - 1

RECURSIVE compare_pass(_, _, _, _)
compare_pass(h, P, i, inserted_word_freq) ==
    IF i > CompareLast(P) THEN h
    ELSE compare_pass(compare_step(h, P[i], P[i + 1], inserted_word_freq),
                      P, i + 1, inserted_word_freq)

\* variant: the last node is not updated
fixup_Skip(h, P, inserted_word_freq) == h

\* variant: the last node gets the inserted frequency without the test
fixup_Unconditional(h, P, inserted_word_freq) ==
    [h EXCEPT ![P[Len(P) - 1]].word_freq = inserted_word_freq]

\* update last node: nodes_to_update[-2]
fixup(h, P, inserted_word_freq) ==
    IF inserted_word_freq > h[P[Len(P) - 1]].word_freq
    THEN [h EXCEPT ![P[Len(P) - 1]].word_freq = inserted_word_freq]
    ELSE h

update_nodes(h, P) ==
    LET h1 == init_pass(h, P, 1)
        inserted_word_freq == h1[P[Len(P)]].word_freq
        h2 == compare_pass(h1, P, 1, inserted_word_freq)
    IN  fixup(h2, P, inserted_word_freq)

----------------------------------------------------------------------------
(* insert_iterative *)

\* variant: the node of a character is created whether it exists or not
RECURSIVE insert_loop_AlwaysCreate(_, _, _)
insert_loop_AlwaysCreate(st, sentence, i) ==
    IF i > Len(sentence) THEN st
    ELSE LET index == Index(sentence[i])
         IN  IF ~InRange(index)
             THEN [st EXCEPT !.raised = IndexError]
             ELSE LET slot == Slot(index)
                      cur == st.current_node
                      h1 == Append([st.nodes EXCEPT ![cur].links[slot] =
                                                     Len(st.nodes) + 1],
                                   Node(sentence[i]))
                  IN  insert_loop_AlwaysCreate(
                          [nodes |-> h1,
                           current_node |-> h1[cur].links[slot],
                           nodes_to_update |-> Append(st.nodes_to_update, cur),
                           raised |-> NoError],
                          sentence, i + 1)

\* the loop over the characters of the sentence, from character i on; st is
\* the heap, current_node, nodes_to_update and the exception raised, if any
RECURSIVE insert_loop(_, _, _)
insert_loop(st, sentence, i) ==
    IF i > Len(sentence) THEN st
    ELSE LET index == Index(sentence[i])
         IN  IF ~InRange(index)
             THEN [st EXCEPT !.raised = IndexError]
             ELSE LET slot == Slot(index)
                      cur == st.current_node
                      h1 == IF st.nodes[cur].links[slot] = None
                            THEN Append([st.nodes EXCEPT ![cur].links[slot] =
                                                          Len(st.nodes) + 1],
                                        Node(sentence[i]))
                            ELSE st.nodes
                  IN  insert_loop([nodes |-> h1,
                                   current_node |-> h1[cur].links[slot],
                                   nodes_to_update |-> Append(st.nodes_to_update, cur),
                                   raised |-> NoError],
                                  sentence, i + 1)

\* variant: the frequency is set, not incremented
Increment_Set(freq) == 1

\* the terminal's frequency after this insertion
Increment(freq) == freq + 1

\* the call up to the call of update_nodes: the path of the sentence is in
\* the trie and in nodes_to_update, the terminal holds the word and its new
\* frequency; or the exception that ended the loop
insert_path(h, sentence) ==
    LET st == insert_loop([nodes |-> h, current_node |-> root,
                           nodes_to_update |-> <<>>, raised |-> NoError],
                          sentence, 1)
    IN  IF st.raised # NoError
        THEN [nodes |-> st.nodes, nodes_to_update |-> st.nodes_to_update,
              raised |-> st.raised]
        ELSE LET cur == st.current_node
                 P1 == Append(st.nodes_to_update, cur)
                 h1 == IF st.nodes[cur].links[0] = None
                       THEN Append([st.nodes EXCEPT ![cur].links[0] =
                                                     Len(st.nodes) + 1],
                                   Node(TerminalChar))
                       ELSE st.nodes
                 terminal_node == h1[cur].links[0]
                 h2 == [h1 EXCEPT ![terminal_node].word_freq = Increment(@),
                                  ![terminal_node].word = Str(sentence)]
                 P == Append(P1, terminal_node)
             IN  [nodes |-> h2, nodes_to_update |-> P, raised |-> NoError]

\* the whole call; the result holds the heap and nodes_to_update the call
\* leaves behind, and the exception it ended with
insert_iterative(h, sentence) ==
    LET pre == insert_path(h, sentence)
    IN  IF pre.raised # NoError THEN pre
        ELSE [nodes |-> update_nodes(pre.nodes, pre.nodes_to_update),
              nodes_to_update |-> pre.nodes_to_update,
              raised |-> NoError]

----------------------------------------------------------------------------
(* autoComplete *)

\* the outcome of a call: the exception it raised or the value it returned,
\* and the links it followed: child_links counts the executions of
\* node = node.links[index], best_links the moves of current to a node
\* along best_child
Return(v, c, b) ==
    [raised |-> NoError, value |-> v, child_links |-> c, best_links |-> b]
Raise(e, c, b) ==
    [raised |-> e, value |-> NoneStr, child_links |-> c, best_links |-> b]

\* variant: an absent link does not end the walk
RECURSIVE walk_NoEarlyReturn(_, _, _, _)
walk_NoEarlyReturn(h, node, p, i) ==
    IF i > Len(p) THEN [raised |-> NoError, node |-> node, child_links |-> i - 1]
    ELSE LET index == Index(p[i])
         IN  IF ~InRange(index)
             THEN [raised |-> IndexError, node |-> None, child_links |-> i - 1]
             ELSE IF h[node].links[Slot(index)] = None
             THEN walk_NoEarlyReturn(h, node, p, i + 1)
             ELSE walk_NoEarlyReturn(h, h[node].links[Slot(index)], p, i + 1)

\* the loop over the characters of the prompt, from character i on: the node
\* reached, None when a link is absent, or the exception of a bad subscript;
\* the characters before character i have each moved node along one link
RECURSIVE walk(_, _, _, _)
walk(h, node, p, i) ==
    IF i > Len(p) THEN [raised |-> NoError, node |-> node, child_links |-> i - 1]
    ELSE LET index == Index(p[i])
         IN  IF ~InRange(index)
             THEN [raised |-> IndexError, node |-> None, child_links |-> i - 1]
             ELSE IF h[node].links[Slot(index)] = None
             THEN [raised |-> NoError, node |-> None, child_links |-> i - 1]
             ELSE walk(h, h[node].links[Slot(index)], p, i + 1)

\* the loop along best_child until the terminal; reading .char of None
\* raises AttributeError.  fuel bounds the unrolling by the number of nodes;
\* c and b are the child links and the best_child links followed before
\* current, which is one more best_child link when it is a node.
RECURSIVE follow(_, _, _, _, _)
follow(h, current, fuel, c, b) ==
    IF current = None THEN Raise(AttributeError, c, b)
    ELSE IF h[current].char = TerminalChar THEN Return(h[current].word, c, b + 1)
    ELSE IF fuel = 0 THEN Raise("diverges", c, b + 1)
    ELSE follow(h, h[current].best_child, fuel - 1, c, b + 1)

\* variant: the best_child chain is followed from the root
autoComplete_FromRoot(h, p) ==
    LET w == walk(h, root, p, 1)
    IN  IF w.raised # NoError THEN Raise(w.raised, w.child_links, 0)
        ELSE IF w.node = None THEN Return(NoneStr, w.child_links, 0)
        ELSE follow(h, h[root].best_child, Len(h), w.child_links, 0)

autoComplete(h, p) ==
    LET w == walk(h, root, p, 1)
    IN  IF w.raised # NoError THEN Raise(w.raised, w.child_links, 0)
        ELSE IF w.node = None THEN Return(NoneStr, w.child_links, 0)
        ELSE follow(h, h[w.node].best_child, Len(h), w.child_links, 0)

\* variant: the query caches an answer, storing the newest node as the
\* best_child of the node the prompt leads to
autoComplete_nodes_Caching(h, p) ==
    LET w == walk(h, root, p, 1)
    IN  IF w.raised # NoError \/ w.node = None THEN h
        ELSE IF Len(h) < 2 THEN h
        ELSE [h EXCEPT ![w.node].best_child = Len(h)]

\* the heap after the call: autoComplete assigns to local names only (node,
\* index, current), never to a field of the trie or of a node
autoComplete_nodes(h, p) == h

----------------------------------------------------------------------------
(* The state machine *)

\* CatsTrie.__init__ before the first sentence is inserted
Init ==
    /\ nodes = <<Node(RootChar)>>
    /\ nodes_to_update = <<>>
    /\ sentences = <<>>
    /\ call = [op |-> "__init__", arg |-> <<>>, raised |-> NoError,
               value |-> NoneStr, child_links |-> 0, best_links |-> 0]

Insert(s) ==
    LET r == insert_iterative(nodes, s)
    IN  /\ nodes' = r.nodes
        /\ nodes_to_update' = r.nodes_to_update
        /\ sentences' = Append(sentences, s)
        /\ call' = [op |-> "insert_iterative", arg |-> s, raised |-> r.raised,
                    value |-> NoneStr, child_links |-> 0, best_links |-> 0]

Query(p) ==
    LET r == autoComplete(nodes, p)
    IN  /\ call' = [op |-> "autoComplete", arg |-> p, raised |-> r.raised,
                    value |-> r.value, child_links |-> r.child_links,
                    best_links |-> r.best_links]
        /\ nodes' = autoComplete_nodes(nodes, p)
        /\ UNCHANGED <<nodes_to_update, sentences>>

\* autoComplete assigns to no field of the trie or of a node: the trie after
\* a query is the trie before it, and a call made after a query starts from
\* a state that is reached without the query.  A run therefore records one
\* query and ends there.
Open == call.op # "autoComplete"

\* sentences over a-z
InsertLower ==
    /\ Open
    /\ Len(sentences) < MaxIns
    /\ \E s \in Sentences : Insert(s)
QueryLower ==
    /\ Open
    /\ \E p \in Prompts : Query(p)

Next == InsertLower \/ QueryLower

Spec == Init /\ [][Next]_vars

\* sentences and prompts over any character
InsertAny ==
    /\ Open
    /\ Len(sentences) < MaxInsX
    /\ \E s \in AnySentences : Insert(s)
QueryAny ==
    /\ Open
    /\ \E p \in AnyPrompts : Query(p)

NextAny == InsertAny \/ QueryAny

SpecAny == Init /\ [][NextAny]_vars

----------------------------------------------------------------------------
(* The corpus and the reference answer *)

Inserted == {sentences[i] : i \in DOMAIN sentences}

\* the number of times s was inserted
Count(s) == Cardinality({i \in DOMAIN sentences : sentences[i] = s})

IsPrefix(p, s) == Len(p) <= Len(s) /\ SubSeq(s, 1, Len(p)) = p

\* whole-string order on strings: a < b
LexLess(a, b) ==
    \E k \in 0..Len(a) :
        /\ k <= Len(b)
        /\ SubSeq(a, 1, k) = SubSeq(b, 1, k)
        /\ IF k = Len(a) THEN k < Len(b)
           ELSE k < Len(b) /\ a[k + 1] < b[k + 1]

\* s is better than t: more insertions, or as many and smaller
Better(s, t) == Count(s) > Count(t) \/ (Count(s) = Count(t) /\ LexLess(s, t))

Matching(p) == {s \in Inserted : IsPrefix(p, s)}

\* the best of a non-empty set of inserted sentences
BestOf(S) == CHOOSE s \in S : \A t \in S \ {s} : Better(s, t)

Reference(p) == BestOf(Matching(p))

----------------------------------------------------------------------------
(* The shape of the heap *)

NodeIds(h) == 1..Len(h)

IsTerminal(h, n) == h[n].char = TerminalChar

Children(h, n) == {h[n].links[i] : i \in 0..(NumLinks - 1)} \ {None}

\* the nodes of the subtree of n, n included; fuel bounds the depth
RECURSIVE Subtree(_, _, _)
Subtree(h, n, fuel) ==
    IF fuel = 0 THEN {n}
    ELSE {n} \cup UNION {Subtree(h, c, fuel - 1) : c \in Children(h, n)}

Reachable(h) == Subtree(h, root, Len(h))

\* the terminal the best_child chain of n ends in, None if it ends in none
RECURSIVE Chase(_, _, _)
Chase(h, n, fuel) ==
    IF n = None THEN None
    ELSE IF IsTerminal(h, n) THEN n
    ELSE IF fuel = 0 THEN None
    ELSE Chase(h, h[n].best_child, fuel - 1)

\* the sentences stored in the subtree of n
SubtreeWords(h, n) ==
    {h[t].word[1] : t \in {x \in Subtree(h, n, Len(h)) :
                              IsTerminal(h, x) /\ h[x].word # NoneStr}}

----------------------------------------------------------------------------
(* Claims *)

\* C1: after any sequence of insertions of non-empty a-z sentences, for
\* every a-z prompt that is a prefix of an inserted sentence, autoComplete
\* returns the reference answer: among the inserted sentences starting with
\* the prompt, the one inserted most often, the smallest in whole-string
\* order among those.
C1_ReferenceAnswer ==
    (call.op = "autoComplete" /\ Matching(call.arg) # {}) =>
        (call.raised = NoError /\ call.value = Str(Reference(call.arg)))

\* a query answered with a sentence that was inserted more often than a
\* smaller sentence that matches the prompt too
C1_Witness ==
    /\ call.op = "autoComplete"
    /\ call.value # NoneStr
    /\ \E s \in Matching(call.arg) :
          Count(call.value[1]) > Count(s) /\ LexLess(s, call.value[1])

\* C2: after every completed insertion, every non-terminal node N reachable
\* from the root has a best_child among its children, its best_child chain
\* ends in a terminal T whose word is the most inserted sentence of N's
\* subtree, the smallest on ties, and N.word_freq = T.word_freq.
C2_CacheInvariant ==
    call.op = "insert_iterative" =>
        \A n \in Reachable(nodes) :
            ~IsTerminal(nodes, n) =>
                LET t == Chase(nodes, n, Len(nodes))
                IN  /\ nodes[n].best_child \in Children(nodes, n)
                    /\ t # None
                    /\ nodes[t].word = Str(BestOf(SubtreeWords(nodes, n)))
                    /\ nodes[n].word_freq = nodes[t].word_freq

\* a node below the root with two subtrees whose best child is not the
\* child the last insertion went through
C2_Witness ==
    /\ call.op = "insert_iterative"
    /\ \E i \in 2..(Len(nodes_to_update) - 1) :
          LET n == nodes_to_update[i]
          IN  /\ Cardinality(Children(nodes, n)) >= 2
              /\ nodes[n].best_child # nodes_to_update[i + 1]

\* C3: for every corpus, the empty one included, and every a-z prompt whose
\* literal path from the root exists (the empty prompt's path is the root),
\* autoComplete returns a sentence and raises no fault.
C3_PathExistsReturnsSentence ==
    (call.op = "autoComplete" /\ walk(nodes, root, call.arg, 1).node # None)
        => (call.raised = NoError /\ call.value # NoneStr)

\* the characters a-z
LowerCase == OrdA..(OrdA + NumLinks - 2)

\* C4: for a prompt with a character outside a-z, autoComplete returns None:
\* it raises no fault, follows no other symbol's slot, returns no sentence.
C4_OtherCharNoMatch ==
    (call.op = "autoComplete" /\ \E i \in DOMAIN call.arg : call.arg[i] \notin LowerCase)
        => (call.raised = NoError /\ call.value = NoneStr)

\* C5: for every a-z prompt, autoComplete returns None if and only if the
\* prompt is a prefix of no inserted sentence.
C5_NoMatchIffNoPrefix ==
    call.op = "autoComplete" =>
        ((call.raised = NoError /\ call.value = NoneStr) <=> Matching(call.arg) = {})

\* the symbol a slot of links stands for: '$' for slot 0, a letter otherwise
SlotChar(i) == IF i = 0 THEN TerminalChar ELSE OrdA + i - 1

\* every node sits in the slot of its own character
SlotsConsistent(h) ==
    \A n \in NodeIds(h) : \A i \in 0..(NumLinks - 1) :
        h[n].links[i] # None => h[h[n].links[i]].char = SlotChar(i)

\* every non-terminal node of a non-empty trie has a best_child among its
\* children whose chain ends in a terminal
CacheWellFormed(h) ==
    Len(h) > 1 =>
        \A n \in Reachable(h) :
            ~IsTerminal(h, n) =>
                /\ h[n].best_child \in Children(h, n)
                /\ Chase(h, n, Len(h)) # None

\* C6: inserting a sentence with a character outside a-z never stores a node
\* in the slot of another symbol and never leaves the cache broken.
C6_OtherCharNoCorruption ==
    SlotsConsistent(nodes) /\ CacheWellFormed(nodes)

----------------------------------------------------------------------------
(* Tries compared node for node *)

\* the trie built by inserting the sentences of q in order
RECURSIVE Build(_, _)
Build(q, n) ==
    IF n = 0 THEN <<Node(RootChar)>>
    ELSE insert_iterative(Build(q, n - 1), q[n]).nodes

\* q with s placed before its first element that is not smaller than s
RECURSIVE InsertSorted(_, _)
InsertSorted(q, s) ==
    IF q = <<>> THEN <<s>>
    ELSE IF LexLess(q[1], s) THEN <<q[1]>> \o InsertSorted(Tail(q), s)
    ELSE <<s>> \o q

\* the first n sentences of q in ascending order
RECURSIVE SortSeq(_, _)
SortSeq(q, n) == IF n = 0 THEN <<>> ELSE InsertSorted(SortSeq(q, n - 1), q[n])

OccupiedSlots(h, n) == {i \in 0..(NumLinks - 1) : h[n].links[i] # None}

\* the nodes of the subtree of n with the slots leading to them from the root
RECURSIVE PathsFrom(_, _, _, _)
PathsFrom(h, n, path, fuel) ==
    {<<path, n>>} \cup
    (IF fuel = 0 THEN {}
     ELSE UNION {PathsFrom(h, h[n].links[i], Append(path, i), fuel - 1) :
                     i \in OccupiedSlots(h, n)})

\* the trie without the references: every node by its path of slots, with
\* its fields and the slots of its children and of its best_child
CanonNode(h, path, n) ==
    LET slots == OccupiedSlots(h, n)
    IN  [path |-> path,
         char |-> h[n].char,
         word |-> h[n].word,
         word_freq |-> h[n].word_freq,
         children |-> slots,
         best_child |-> {i \in slots : h[n].links[i] = h[n].best_child},
         has_best_child |-> h[n].best_child # None]

Canon(h) == {CanonNode(h, pn[1], pn[2]) : pn \in PathsFrom(h, root, <<>>, Len(h))}

\* C7: two insertion sequences that are permutations of each other give
\* tries identical node for node, hence the same answer to every prompt.
\* Every sequence within the bounds is the history of a reachable state, so
\* it is enough that each gives the trie of its sentences in ascending order.
C7_OrderIndependence ==
    call.op = "insert_iterative" =>
        LET sorted == SortSeq(sentences, Len(sentences))
            other == Build(sorted, Len(sorted))
        IN  /\ Canon(nodes) = Canon(other)
            /\ \A p \in Prompts : autoComplete(nodes, p) = autoComplete(other, p)

\* sentences inserted in descending order, two of them tied at the root
C7_Witness ==
    /\ call.op = "insert_iterative"
    /\ Len(sentences) >= 3
    /\ \A i \in 1..(Len(sentences) - 1) : LexLess(sentences[i + 1], sentences[i])
    /\ Cardinality(Children(nodes, root)) >= 2

\* C8: when several inserted sentences share the prompt and the highest
\* count, autoComplete returns the smallest of them in whole-string order;
\* a sentence that is a proper prefix of another tied sentence wins over it,
\* whichever was inserted first.
C8_LexTieBreak ==
    call.op = "autoComplete" =>
        LET top == {s \in Matching(call.arg) :
                       \A t \in Matching(call.arg) : Count(s) >= Count(t)}
        IN  top # {} =>
                /\ call.raised = NoError
                /\ call.value # NoneStr
                /\ call.value[1] \in top
                /\ \A s \in top \ {call.value[1]} :
                      LexLess(call.value[1], s) /\ ~IsPrefix(s, call.value[1])

FirstIndex(s) == CHOOSE i \in DOMAIN sentences :
                     sentences[i] = s /\ \A j \in 1..(i - 1) : sentences[j] # s

\* three tied sentences (cat, car, care): the answer is a proper prefix of
\* another one that was inserted before it
C8_Witness ==
    /\ call.op = "autoComplete"
    /\ call.value # NoneStr
    /\ \E t \in Matching(call.arg) : \E u \in Matching(call.arg) :
          LET s == call.value[1]
          IN  /\ s # t /\ s # u /\ t # u
              /\ Count(s) = Count(t) /\ Count(s) = Count(u)
              /\ IsPrefix(s, t)
              /\ FirstIndex(t) < FirstIndex(s)

----------------------------------------------------------------------------
(* Paths and re-insertion *)

\* the node that holds n in one of its links
Parent(h, n) == CHOOSE m \in NodeIds(h) : n \in Children(h, m)

\* the string spelled by the letter slots on the way from the root to n
RECURSIVE Spelled(_, _, _)
Spelled(h, n, fuel) ==
    IF n = root \/ fuel = 0 THEN <<>>
    ELSE LET m == Parent(h, n)
             i == CHOOSE j \in OccupiedSlots(h, m) : h[m].links[j] = n
         IN  IF i = 0 THEN Spelled(h, m, fuel - 1)
             ELSE Append(Spelled(h, m, fuel - 1), SlotChar(i))

\* the terminal node of sentence s, None when its path is not in the trie
TerminalOf(h, s) ==
    LET w == walk(h, root, s, 1)
    IN  IF w.raised # NoError \/ w.node = None THEN None
        ELSE h[w.node].links[0]

\* the non-empty prefixes of the inserted sentences
InsertedPrefixes ==
    UNION {{SubSeq(s, 1, k) : k \in 1..Len(s)} : s \in Inserted}

\* every terminal holds the sentence its path spells and the number of times
\* that sentence was inserted, and no path has more than one node
TerminalsCount ==
    call.op = "insert_iterative" =>
    /\ \A n \in NodeIds(nodes) :
          IsTerminal(nodes, n) =>
              LET s == Spelled(nodes, n, Len(nodes))
              IN  /\ nodes[n].word = Str(s)
                  /\ nodes[n].word_freq = Count(s)
                  /\ nodes[n].word_freq >= 1
    /\ Len(nodes) = 1 + Cardinality(InsertedPrefixes) + Cardinality(Inserted)

\* an insertion of a sentence whose path exists adds no node and adds
\* exactly 1 to the frequency of the sentence's terminal
ReInsertStep ==
    \A s \in Sentences :
        (sentences' = Append(sentences, s) /\ TerminalOf(nodes, s) # None) =>
            /\ Len(nodes') = Len(nodes)
            /\ TerminalOf(nodes', s) = TerminalOf(nodes, s)
            /\ nodes'[TerminalOf(nodes, s)].word_freq =
                   nodes[TerminalOf(nodes, s)].word_freq + 1
            /\ nodes'[TerminalOf(nodes, s)].word = Str(s)

\* C9: inserting a sentence whose path exists creates no node and adds
\* exactly 1 to the word_freq of its terminal; so every terminal's word_freq
\* is the number of insertions of its sentence, and its word that sentence.
C9_ReInsertion == [][ReInsertStep]_vars /\ []TerminalsCount

\* a sentence inserted a third time, after another sentence came in between
C9_Witness ==
    /\ call.op = "insert_iterative"
    /\ Len(sentences) >= 3
    /\ Count(call.arg) >= 2
    /\ sentences[Len(sentences) - 1] # call.arg
    /\ nodes[TerminalOf(nodes, call.arg)].word_freq = Count(call.arg)

\* C10: every string autoComplete returns is an inserted sentence, verbatim,
\* that starts with the prompt; and for every inserted sentence S and every
\* prefix p of S, the empty one and S included, autoComplete(p) returns one.
C10_ReturnsInsertedSentence ==
    call.op = "autoComplete" =>
        /\ (call.raised = NoError /\ call.value # NoneStr) =>
               (call.value[1] \in Inserted /\ IsPrefix(call.arg, call.value[1]))
        /\ (\E s \in Inserted : \E k \in 0..Len(s) : call.arg = SubSeq(s, 1, k)) =>
               /\ call.raised = NoError
               /\ call.value # NoneStr
               /\ call.value[1] \in Inserted
               /\ IsPrefix(call.arg, call.value[1])

\* a query for a proper, non-empty prefix answered with a longer sentence,
\* in a trie that holds another sentence the prompt does not start
C10_Witness ==
    /\ call.op = "autoComplete"
    /\ call.value # NoneStr
    /\ call.arg # <<>>
    /\ call.value[1] # call.arg
    /\ call.value[1] \in Inserted
    /\ \E s \in Inserted : ~IsPrefix(call.arg, s)

----------------------------------------------------------------------------
(* Work of a query *)

\* C11: autoComplete terminates having followed, for a prompt it answers
\* with a sentence, exactly len(prompt) child links and then
\* len(result) - len(prompt) + 1 best_child links, len(result) + 1 in all,
\* and for a prompt it does not answer at most len(prompt) links, whatever
\* the number of sentences and nodes.
C11_LinksFollowed ==
    call.op = "autoComplete" =>
        /\ call.raised # "diverges"
        /\ IF call.raised = NoError /\ call.value # NoneStr
           THEN /\ call.child_links = Len(call.arg)
                /\ call.best_links = Len(call.value[1]) - Len(call.arg) + 1
                /\ call.child_links + call.best_links = Len(call.value[1]) + 1
           ELSE call.child_links + call.best_links <= Len(call.arg)

\* a query answered along two best_child links in a trie of more nodes than
\* the links followed, and one left unanswered after a link was followed
C11_Witness ==
    /\ call.op = "autoComplete"
    /\ \/ /\ call.value # NoneStr
          /\ call.child_links = 1
          /\ call.best_links = 2
          /\ Len(nodes) > call.child_links + call.best_links + 2
       \/ /\ call.raised = NoError
          /\ call.value = NoneStr
          /\ call.child_links = 1
          /\ Len(call.arg) = 2

\* the recorded outcome of the last call, as autoComplete gives it
Outcome(c) ==
    [raised |-> c.raised, value |-> c.value, child_links |-> c.child_links,
     best_links |-> c.best_links]

\* C12: autoComplete is read-only: whether it returns a sentence or None, it
\* leaves the links, char, word, word_freq and best_child of every node
\* unchanged, so the same query on the trie it leaves gives the same result.
C12_QueryReadOnly ==
    [][call'.op = "autoComplete" =>
          /\ nodes' = nodes
          /\ nodes_to_update' = nodes_to_update
          /\ autoComplete(nodes', call'.arg) = Outcome(call')]_vars

\* a query that found no match in a trie that holds sentences
C12_Witness ==
    /\ call.op = "autoComplete"
    /\ call.raised = NoError
    /\ call.value = NoneStr
    /\ Len(sentences) >= 2
    /\ call.arg # <<>>

----------------------------------------------------------------------------
(* Steps of insertion *)

\* the step is a completed insert_iterative call
InsertStep == call'.op = "insert_iterative" /\ sentences' # sentences

\* the nodes of a list of nodes
Range(P) == {P[i] : i \in DOMAIN P}

\* P is the path of sentence s in heap h: the root, one node per character,
\* and the terminal
IsPathOf(h, P, s) ==
    /\ Len(P) = Len(s) + 2
    /\ P[1] = root
    /\ \A i \in 1..Len(s) : P[i + 1] = h[P[i]].links[Slot(Index(s[i]))]
    /\ P[Len(P)] = h[P[Len(P) - 1]].links[0]

\* C13: insert_iterative(sentence) changes fields only of the nodes on the
\* path of the sentence (root, one node per character, terminal): every
\* other node keeps its links, char, word, word_freq and best_child, the
\* nodes it creates are on the path, and no occupied link of any node is
\* replaced or removed.
C13_InsertFrame ==
    [][InsertStep =>
          /\ IsPathOf(nodes', nodes_to_update', call'.arg)
          /\ Len(nodes') >= Len(nodes)
          /\ \A n \in NodeIds(nodes') \ NodeIds(nodes) : n \in Range(nodes_to_update')
          /\ \A n \in NodeIds(nodes) :
                /\ n \notin Range(nodes_to_update') => nodes'[n] = nodes[n]
                /\ nodes'[n].char = nodes[n].char
                /\ \A i \in 0..(NumLinks - 1) :
                      nodes[n].links[i] # None =>
                          nodes'[n].links[i] = nodes[n].links[i]]_vars

\* an insertion that changed the root's best_child and left a node with a
\* cache off its path
C13_Witness ==
    /\ call.op = "insert_iterative"
    /\ Len(sentences) >= 2
    /\ nodes[root].best_child = nodes_to_update[2]
    /\ \E n \in NodeIds(nodes) \ Range(nodes_to_update) :
          /\ nodes[n].best_child # None
          /\ n < nodes[root].best_child

\* the heaps of one call of insert_iterative: pre, when update_nodes is
\* called; seeded, between its first and its second loop; compared, between
\* the second loop and the update of the last node; with the path P, the
\* inserted frequency f, and the last two nodes of the path,
\* nodes_to_update[-2] and nodes_to_update[-1]
Passes(h, sentence) ==
    LET pre == insert_path(h, sentence)
        P == pre.nodes_to_update
        f == pre.nodes[P[Len(P)]].word_freq
        seeded == init_pass(pre.nodes, P, 1)
    IN  [pre |-> pre.nodes, P |-> P, f |-> f, seeded |-> seeded,
         compared |-> compare_pass(seeded, P, 1, f),
         last |-> P[Len(P) - 1], terminal |-> P[Len(P)]]

\* the nodes this step has created
Created == NodeIds(nodes') \ NodeIds(nodes)

\* C14: in every insertion, the first one included, each non-terminal node
\* of the path has, when the comparison pass begins, a best_child that is one
\* of its children; and the initialization pass seeds exactly the nodes that
\* had no best_child when the insertion began (the nodes this insertion
\* created, and the root on the first insertion), leaving the best_child and
\* word_freq of every node that had a cache as they were.
C14_SeededBeforeCompare ==
    [][InsertStep =>
        \A u \in {Passes(nodes, call'.arg)} :
          LET P == u.P
              Seeded == u.seeded
              inner == {P[i] : i \in 1..(Len(P) - 1)}
              fresh == {n \in inner : n \in Created \/ nodes[n].best_child = None}
          IN  /\ \A n \in inner :
                    /\ Seeded[n].best_child # None
                    /\ Seeded[n].best_child \in Children(Seeded, n)
              /\ \A i \in 1..(Len(P) - 1) :
                    IF P[i] \in fresh
                    THEN /\ Seeded[P[i]].best_child = P[i + 1]
                         /\ Seeded[P[i]].word_freq = u.f
                    ELSE /\ Seeded[P[i]].best_child = nodes[P[i]].best_child
                         /\ Seeded[P[i]].word_freq = nodes[P[i]].word_freq
              /\ fresh = (inner \cap Created) \cup
                         (IF sentences = <<>> THEN {root} ELSE {})
              /\ \A n \in NodeIds(Seeded) \ inner : Seeded[n] = u.pre[n]]_vars

\* an insertion whose path began with nodes that had a cache pointing off
\* the path and ended with nodes it created
C14_Witness ==
    /\ call.op = "insert_iterative"
    /\ Len(nodes_to_update) = 4
    /\ nodes[root].best_child # nodes_to_update[2]
    /\ nodes_to_update[3] = Len(nodes) - 1
    /\ nodes_to_update[2] < Len(nodes) - 2

----------------------------------------------------------------------------
(* The shape of the trie *)

\* the occupied links of the heap
Links(h) == {<<m, i>> \in NodeIds(h) \X (0..(NumLinks - 1)) : h[m].links[i] # None}

\* the string a path of slots spells, its last slot left out
SpellSlots(path) == [i \in 1..(Len(path) - 1) |-> SlotChar(path[i])]

\* C15: after every insertion of a-z sentences the nodes form a tree rooted
\* at the root (every other node is in exactly one link, none is in a
\* cycle); the node in letter slot i has the i-th letter as char and the node
\* in slot 0 is a terminal with char '$'; word is set on terminals only and
\* is the string the path from the root spells; a terminal has no children,
\* no best_child and word_freq >= 1.
C15_Structure ==
    call.op = "insert_iterative" =>
        LET paths == PathsFrom(nodes, root, <<>>, Len(nodes))
        IN  /\ Cardinality(Links(nodes)) = Len(nodes) - 1
            /\ {nodes[l[1]].links[l[2]] : l \in Links(nodes)} = NodeIds(nodes) \ {root}
            /\ Cardinality(paths) = Len(nodes)
            /\ {pn[2] : pn \in paths} = NodeIds(nodes)
            /\ SlotsConsistent(nodes)
            /\ nodes[root].char = RootChar
            /\ \A pn \in paths :
                  IF IsTerminal(nodes, pn[2])
                  THEN /\ pn[1] # <<>>
                       /\ pn[1][Len(pn[1])] = 0
                       /\ nodes[pn[2]].word = Str(SpellSlots(pn[1]))
                       /\ Children(nodes, pn[2]) = {}
                       /\ nodes[pn[2]].best_child = None
                       /\ nodes[pn[2]].word_freq >= 1
                  ELSE nodes[pn[2]].word = NoneStr

\* a trie with a terminal below a node that has a letter child too, and a
\* sentence inserted twice
C15_Witness ==
    /\ call.op = "insert_iterative"
    /\ \E n \in NodeIds(nodes) :
          /\ n # root
          /\ nodes[n].links[0] # None
          /\ Cardinality(Children(nodes, n)) >= 2
    /\ \E n \in NodeIds(nodes) : IsTerminal(nodes, n) /\ nodes[n].word_freq = 2

----------------------------------------------------------------------------
(* The passes of update_nodes *)

\* C16: whenever the last step of update_nodes raises the word_freq of the
\* last-character node to the inserted frequency f, the best_child of that
\* node is the terminal of the inserted sentence; and after every insertion
\* the word_freq of the last-character node is at least f.
C16_Fixup ==
    [][InsertStep =>
        \A u \in {Passes(nodes, call'.arg)} :
          /\ nodes'[u.last].word_freq # u.compared[u.last].word_freq =>
                 /\ nodes'[u.last].word_freq = u.f
                 /\ u.compared[u.last].word_freq < u.f
                 /\ nodes'[u.last].best_child = u.terminal
          /\ nodes'[u.last].word_freq >= u.f
          /\ nodes'[u.last].best_child = u.compared[u.last].best_child]_vars

\* a re-insertion that raised to 2 the word_freq of a last-character node
\* that has a letter child beside the terminal
C16_Witness ==
    /\ call.op = "insert_iterative"
    /\ LET n == nodes_to_update[Len(nodes_to_update) - 1]
           t == nodes_to_update[Len(nodes_to_update)]
       IN  /\ Cardinality(Children(nodes, n)) >= 2
           /\ nodes[n].best_child = t
           /\ nodes[t].word_freq = 2
           /\ nodes[n].word_freq = 2

\* C17 as stated: the comparison pass compares the pairs (P[i], P[i+1])
\* for i from 0 to k-1 only, the pair (node_k, terminal) left out, so it
\* never changes the best_child of the last-character node node_k.
C17_TerminalPairExcluded ==
    [][InsertStep =>
        \A u \in {Passes(nodes, call'.arg)} :
          u.compared[u.last].best_child = u.seeded[u.last].best_child]_vars

\* C17, amended: the comparison pass compares the pairs (P[i], P[i+1]) for i
\* from 0 to k, the pair (node_k, terminal) included: it makes the terminal
\* the best_child of node_k exactly when f is greater than the word_freq of
\* node_k's best child, or equal to it with the terminal's char '$' smaller
\* than that child's char; it sets node_k's word_freq to f in the first case
\* and leaves it in every other; the last step changes node_k's word_freq
\* alone.
C17_TerminalPairCompared ==
    [][InsertStep =>
        \A u \in {Passes(nodes, call'.arg)} :
          LET old == u.seeded[u.last].best_child
              wins == \/ u.f > u.seeded[old].word_freq
                      \/ /\ u.f = u.seeded[old].word_freq
                         /\ TerminalChar < u.seeded[old].char
          IN  /\ wins => u.compared[u.last].best_child = u.terminal
              /\ ~wins => u.compared[u.last] = u.seeded[u.last]
              /\ u.f > u.seeded[old].word_freq =>
                     u.compared[u.last].word_freq = u.f
              /\ u.f <= u.seeded[old].word_freq =>
                     u.compared[u.last].word_freq = u.seeded[u.last].word_freq
              /\ nodes'[u.last].best_child = u.compared[u.last].best_child
              /\ nodes'[u.last].links = u.compared[u.last].links]_vars

\* an insertion that created the terminal below a node whose best_child was
\* a letter child, and made the terminal its best_child on a tie
C17_Witness ==
    /\ call.op = "insert_iterative"
    /\ LET n == nodes_to_update[Len(nodes_to_update) - 1]
           t == nodes_to_update[Len(nodes_to_update)]
       IN  /\ t = Len(nodes)
           /\ Len(nodes_to_update) = 3
           /\ Cardinality(Children(nodes, n)) = 2
           /\ nodes[n].best_child = t
           /\ nodes[t].word_freq = 1
           /\ nodes[n].word_freq = 1

----------------------------------------------------------------------------
(* Growth *)

\* C18: across any sequence of insertions, in each of them, no node is
\* removed and no occupied link is given another node; the word_freq of
\* every node, terminal or not, never decreases; a node that has a
\* best_child keeps having one.
C18_MonotoneGrowth ==
    [][InsertStep =>
        /\ Len(nodes') >= Len(nodes)
        /\ \A n \in NodeIds(nodes) :
              /\ \A i \in 0..(NumLinks - 1) :
                    nodes[n].links[i] # None =>
                        nodes'[n].links[i] = nodes[n].links[i]
              /\ nodes'[n].word_freq >= nodes[n].word_freq
              /\ nodes[n].best_child # None => nodes'[n].best_child # None]_vars

\* an insertion of a sentence seen once, through a last-character node
\* whose word_freq stayed at 2
C18_Witness ==
    /\ call.op = "insert_iterative"
    /\ Count(call.arg) = 1
    /\ nodes[nodes_to_update[Len(nodes_to_update) - 1]].word_freq = 2
    /\ nodes[root].word_freq = 2

\* what a query answers: the fault it raises and the value it returns
Answer(c) == [raised |-> c.raised, value |-> c.value]

\* C19: an insertion of S changes a query result only in favour of S: for
\* every prompt over a-z, a sentence returned before and a different one
\* returned after means the new one is S; a prompt that is not a prefix of
\* S has the same result, sentence or no match, before and after.
C19_ChangeOnlyToInserted ==
    [][InsertStep =>
        \A p \in Prompts :
            LET before == autoComplete(nodes, p)
                after  == autoComplete(nodes', p)
            IN  /\ (/\ before.raised = NoError
                    /\ before.value # NoneStr
                    /\ Answer(after) # Answer(before))
                       => Answer(after) = [raised |-> NoError,
                                           value  |-> Str(call'.arg)]
                /\ ~IsPrefix(p, call'.arg)
                       => Answer(after) = Answer(before)]_vars

\* the inserted sentence, seen once, took the empty prompt's result from
\* another sentence seen once, and a prompt off its path still has a result
C19_Witness ==
    /\ call.op = "insert_iterative"
    /\ Count(call.arg) = 1
    /\ \E s \in Inserted : s # call.arg /\ Count(s) = 1
    /\ autoComplete(nodes, <<>>).value = Str(call.arg)
    /\ \E p \in Prompts :
          /\ ~IsPrefix(p, call.arg)
          /\ autoComplete(nodes, p).value # NoneStr

\* the heaps of the second loop of update_nodes: the heap it starts on,
\* then the heap after each of its iterations
RECURSIVE ComparedUpTo(_, _, _, _)
ComparedUpTo(h, P, k, inserted_word_freq) ==
    IF k = 0 THEN <<h>>
    ELSE LET before == ComparedUpTo(h, P, k - 1, inserted_word_freq)
         IN  Append(before,
                    compare_step(before[k], P[k], P[k + 1], inserted_word_freq))

\* an iteration of the second loop, run on heap h, takes the tie-break branch
TieBranch(h, node, new_child, inserted_word_freq) ==
    /\ inserted_word_freq = h[h[node].best_child].word_freq
    /\ TieBreak(h[new_child].char, h[h[node].best_child].char)

\* C20: whenever an iteration of the comparison pass takes the tie-break
\* branch (f equal to the word_freq of the current best child, the new
\* child's character strictly smaller), the node's word_freq already equals
\* f; the branch leaves it untouched, and after the insertion the node's
\* word_freq is the frequency of its best completion, the inserted sentence.
C20_TieBranchFreq ==
    [][InsertStep =>
        \A u \in {Passes(nodes, call'.arg)} :
        \A H \in {ComparedUpTo(u.seeded, u.P, CompareLast(u.P), u.f)} :
          LET P == u.P
              f == u.f
          IN  /\ H[Len(H)] = u.compared
              /\ \A i \in 1..CompareLast(P) :
                    TieBranch(H[i], P[i], P[i + 1], f) =>
                        /\ H[i][P[i]].word_freq = f
                        /\ H[i + 1][P[i]].word_freq = f
                        /\ H[i + 1][P[i]].best_child = P[i + 1]
                        /\ nodes'[P[i]].word_freq = f
                        /\ nodes'[P[i]].best_child = P[i + 1]
                        /\ Chase(nodes', P[i], Len(nodes')) = u.terminal]_vars

\* the last insertion tied with a greater sentence below a common non-empty
\* prefix, and the prefix now completes to the inserted sentence
C20_Witness ==
    /\ call.op = "insert_iterative"
    /\ \E s \in Inserted, p \in Prompts :
          /\ Len(p) >= 1
          /\ IsPrefix(p, call.arg) /\ IsPrefix(p, s)
          /\ LexLess(call.arg, s)
          /\ Count(s) = Count(call.arg)
          /\ Count(s) = 1
          /\ Len(nodes_to_update) = Len(call.arg) + 2
          /\ autoComplete(nodes, p).value = Str(call.arg)

====
